---- MODULE Spec2Model ----
(***************************************************************************)
(* go-webapp-template: the WebAuthn challenge-session store                *)
(* (internal/services/webauthn), the recovery-code and credential          *)
(* repository (internal/repository) and the authentication handlers        *)
(* (internal/handlers/auth.go).                                            *)
(*                                                                         *)
(* Time is counted in minutes: sessionTTL is 2 and the cleanup ticker      *)
(* period is 1.                                                            *)
(***************************************************************************)
EXTENDS Integers, Sequences, FiniteSets, TLC

VARIABLES
    now,        \* time.Now(), in minutes
    sessions,   \* sessionStore.sessions: map[string]*sessionEntry
    hist,       \* per namespace and subject: what the callers last did
    last,       \* the most recent call on the session service and its result
    nStores,    \* the number of Store* calls so far
    workers,    \* TestConcurrentAccess: what each goroutine has done
    errors,     \* TestConcurrentAccess: the errors channel (its length)
    credentials,  \* table credentials: rows [id, user]
    codes,        \* table recovery_codes: rows [id, user, hash, used], and per
                  \* row the ValidateAndUseRecoveryCode calls it let succeed (wins)
    nextCredID,   \* AUTOINCREMENT of credentials.id
    nextCodeID,   \* AUTOINCREMENT of recovery_codes.id
    nBatches,     \* the number of GenerateCodes calls that returned codes
    req,          \* per concurrent request: where its handler stands, its locals
    dbLast,       \* the request that returned last and its response
    users,        \* table users: the ids
    wid,          \* two user ids, each as its 64 bits
    handle,       \* their WebAuthn user handles, once WebAuthnID has run
    decoded,      \* the ids the LoginFinish callback decodes from the handles
    cfg,          \* config.AuthConfig: UseEmail, RequireVerification
    emailVerified, \* the users whose EmailVerified is true
    tokens,       \* table email_verification_tokens: the users that have one
    signCounts,   \* column sign_count of table credentials, by credential id
    seen,         \* the causes for which LoginFinish has refused a login so far
    clients,      \* Hub.clients: session id -> clients, each a channel and a user id
    userSessions, \* Hub.userSessions: user id -> session ids
    chans,        \* the channels Register has made: buffer, closed, and for whom
    send,         \* the SendToSession or SendToUser call in progress or returned last
    gen,          \* the GenerateCodes call that returned last: its arguments and results
    entry         \* the recovery code a user typed last, and what became of it

storeVars == <<now, sessions, hist, last, nStores>>
testVars == <<workers, errors>>
dbVars == <<credentials, codes, nextCredID, nextCodeID, nBatches, req, dbLast, users>>
handleVars == <<wid, handle, decoded>>
\* what the session store, the repository and the handlers leave alone
loginVars == <<cfg, emailVerified, tokens, signCounts, seen>>
hubVars == <<clients, userSessions, chans, send>>
genVars == <<gen, entry>>
sideVars == <<handleVars, loginVars, hubVars, genVars>>
vars == <<storeVars, testVars, dbVars, sideVars>>

\* what the session service's own steps leave alone
notStore == <<testVars, dbVars, sideVars>>

\* --------------------------------------------------------------- bounds
MaxTime == 3
MaxStores == 3
NumWorkers == 2
MaxRegens == 1
MaxCreds == 3
MaxUsers == 3
MaxBegins == 1
\* recovery.CodeCount is 8; the batches of the model are shorter
CodeCount == 2
MaxLogins == 2
MaxSignCount == 2
MaxChans == 2
MaxQueued == 2

\* ------------------------------------------------------------ constants
sessionTTL == 2

Nil == "nil"
NoTime == -1

UserIDs == {1, 2}
\* the ids of the rows of table users: the first MaxUsers of AUTOINCREMENT
AccountIDs == 1..MaxUsers
\* the users whose ceremonies the session-store specification follows
StoreUsers == {1}
\* session ids are client-chosen on the finish request: "1" is textually a user id
SessionIDs == {"1"}

\* ------------------------------------------------------ key construction
Digit(d) ==
    CASE d = 0 -> "0" [] d = 1 -> "1" [] d = 2 -> "2" [] d = 3 -> "3"
      [] d = 4 -> "4" [] d = 5 -> "5" [] d = 6 -> "6" [] d = 7 -> "7"
      [] d = 8 -> "8" [] d = 9 -> "9"

RECURSIVE Itoa(_)
\* fmt.Sprintf("%d", n)
Itoa(n) ==
    IF n < 0 THEN "-" \o Itoa(0 - n)
    ELSE IF n < 10 THEN Digit(n)
    ELSE Itoa(n \div 10) \o Digit(n % 10)

registrationKey(userID) == "registration:" \o Itoa(userID)

loginKeySharedPrefix(userID) == "registration:" \o Itoa(userID)
loginKey(userID) == "login:" \o Itoa(userID)

discoverableKey(sessionID) == "discoverable:" \o sessionID

\* the callers' view of an entry: the namespace of the Store*/Get* method
\* and its argument
RegId(u) == [ns |-> "registration", user |-> u, sid |-> ""]
LoginId(u) == [ns |-> "login", user |-> u, sid |-> ""]
DiscId(s) == [ns |-> "discoverable", user |-> 0, sid |-> s]
Ids == {RegId(u) : u \in UserIDs \cup AccountIDs} \cup {LoginId(u) : u \in UserIDs}
          \cup {DiscId(s) : s \in SessionIDs}

KeyOf(id) ==
    CASE id.ns = "registration" -> registrationKey(id.user)
      [] id.ns = "login" -> loginKey(id.user)
      [] id.ns = "discoverable" -> discoverableKey(id.sid)

\* ------------------------------------------------------------ sessionStore
newSessionStore == << >>

storeKeepFirst(key, data) ==
    IF key \in DOMAIN sessions THEN sessions
    ELSE [k \in DOMAIN sessions \cup {key} |->
            IF k = key THEN [data |-> data, expiresAt |-> now + sessionTTL]
            ELSE sessions[k]]
storeDropOthers(key, data) ==
    [k \in {key} |-> [data |-> data, expiresAt |-> now + sessionTTL]]
\* sessionStore.store: the map after the call
store(key, data) ==
    [k \in DOMAIN sessions \cup {key} |->
        IF k = key THEN [data |-> data, expiresAt |-> now + sessionTTL]
        ELSE sessions[k]]

getErrNoExpiry(key) ==
    IF key \notin DOMAIN sessions THEN "session not found" ELSE ""
\* sessionStore.get: the error returned ("" is nil)
getErr(key) ==
    IF key \notin DOMAIN sessions THEN "session not found"
    ELSE IF now > sessions[key].expiresAt THEN "session expired"
    ELSE ""

\* sessionStore.get: the data returned
getData(key) == IF getErr(key) = "" THEN sessions[key].data ELSE Nil

getMapNoDelete(key) == sessions
\* sessionStore.get: the map after the call
getMap(key) == [k \in DOMAIN sessions \ {key} |-> sessions[k]]

cleanupMapIdle == sessions
cleanupMapAll == << >>
\* sessionStore.cleanup: the map after one pass of the ticker loop
cleanupMap == [k \in {j \in DOMAIN sessions : ~(now > sessions[j].expiresAt)} |-> sessions[k]]

\* ------------------------------------------------------ calls and history
\* hist[id]: the SessionData last stored through the id's Store* method
\* (data, Nil before the first store), when (at), how many Get* calls followed
\* that store (gets, counted up to 2), whether the first of them returned
\* the data (hit), and the data that store replaced before any Get* call had
\* asked for it (prev, with over telling that there was such data); and, over
\* the whole run, by how many the Store* calls made under the id exceed the
\* Get* calls that returned data (unread).  last keeps the most recent call,
\* and for a Get* call whether the key was in the map when it was made (had),
\* whether it came later than the latest store's time + sessionTTL (late) and
\* whether the call before it was a Get* call with the same argument that
\* failed with "session expired" (afterExpired).  nStores counts the Store*
\* calls; the k-th call stores the k-th challenge, as BeginRegistration and
\* BeginDiscoverableLogin draw a new challenge for every ceremony.
NoHist == [data |-> Nil, at |-> NoTime, gets |-> 0, hit |-> FALSE, over |-> FALSE,
           prev |-> Nil, unread |-> 0]
NoCall == [op |-> "none", id |-> RegId(0), data |-> Nil, err |-> "", late |-> FALSE,
           had |-> FALSE, afterExpired |-> FALSE]

Challenge(k) == "challenge-" \o Itoa(k)

\* a Store* call and what it leaves in the history
StoreCall(id) ==
    /\ nStores < MaxStores
    /\ nStores' = nStores + 1
    /\ sessions' = store(KeyOf(id), Challenge(nStores + 1))
    /\ hist' = [hist EXCEPT ![id] = [data |-> Challenge(nStores + 1), at |-> now,
                                     gets |-> 0, hit |-> FALSE,
                                     over |-> @.at # NoTime /\ @.gets = 0,
                                     prev |-> IF @.at # NoTime /\ @.gets = 0
                                              THEN @.data ELSE Nil,
                                     unread |-> @.unread + 1]]
    /\ last' = [op |-> "store", id |-> id, data |-> Challenge(nStores + 1),
                err |-> "", late |-> FALSE, had |-> FALSE, afterExpired |-> FALSE]

\* a Get* call and what it leaves in the history
GetCall(id) ==
    /\ sessions' = getMap(KeyOf(id))
    /\ hist' = IF hist[id].at = NoTime /\ getErr(KeyOf(id)) # "" THEN hist
               ELSE [hist EXCEPT ![id].gets = IF @ < 2 THEN @ + 1 ELSE @,
                                 ![id].hit = IF hist[id].gets = 0
                                             THEN getErr(KeyOf(id)) = ""
                                             ELSE @,
                                 ![id].unread = IF getErr(KeyOf(id)) = ""
                                                THEN @ - 1 ELSE @]
    /\ last' = [op |-> "get", id |-> id, data |-> getData(KeyOf(id)),
                err |-> getErr(KeyOf(id)),
                late |-> hist[id].at # NoTime /\ now > hist[id].at + sessionTTL,
                had |-> KeyOf(id) \in DOMAIN sessions,
                afterExpired |-> /\ last.op = "get" /\ last.id = id
                                 /\ last.err = "session expired"]

StoreSession(id) == StoreCall(id) /\ UNCHANGED <<now, notStore>>
GetSession(id) == GetCall(id) /\ UNCHANGED <<now, nStores, notStore>>

\* ------------------------------------------------------ Service methods
StoreRegistrationSession(userID) == StoreSession(RegId(userID))
GetRegistrationSession(userID) == GetSession(RegId(userID))
StoreLoginSession(userID) == StoreSession(LoginId(userID))
GetLoginSession(userID) == GetSession(LoginId(userID))
StoreDiscoverableSession(sessionID) == StoreSession(DiscId(sessionID))
GetDiscoverableSession(sessionID) == GetSession(DiscId(sessionID))

\* one iteration of the loop in sessionStore.cleanup
cleanup ==
    /\ sessions' = cleanupMap
    /\ UNCHANGED <<now, hist, last, nStores, notStore>>

\* the clock advances
Tick ==
    /\ now < MaxTime
    /\ now' = now + 1
    /\ UNCHANGED <<sessions, hist, last, nStores, notStore>>

StoreInit ==
    /\ now = 0
    /\ sessions = newSessionStore
    /\ hist = [i \in Ids |-> NoHist]
    /\ last = NoCall
    /\ nStores = 0

\* --------------------------------------------- TestConcurrentAccess
\* Worker i stands for the three goroutines the test starts for i: the one
\* that stores registration session i, the one that stores login session
\* i + 1000, and, after wg.Wait(), the one that gets registration session i.
Workers == 0..(NumWorkers - 1)
RegData(i) == "challenge-" \o Itoa(i)
LoginData == "login-challenge"

TestInit ==
    /\ workers = [i \in Workers |->
                    [storedReg |-> FALSE, storedLogin |-> FALSE, gotReg |-> FALSE,
                     at |-> NoTime, gotAt |-> NoTime, got |-> Nil]]
    /\ errors = 0

GoStoreRegistration(i) ==
    /\ ~workers[i].storedReg
    /\ sessions' = store(registrationKey(i), RegData(i))
    /\ workers' = [workers EXCEPT ![i].storedReg = TRUE, ![i].at = now]
    /\ UNCHANGED <<now, hist, last, nStores, errors, dbVars, sideVars>>

GoStoreLogin(i) ==
    /\ ~workers[i].storedLogin
    /\ sessions' = store(loginKey(i + 1000), LoginData)
    /\ workers' = [workers EXCEPT ![i].storedLogin = TRUE]
    /\ UNCHANGED <<now, hist, last, nStores, errors, dbVars, sideVars>>

\* wg.Wait() has returned: every store goroutine is done
AllStored == \A j \in Workers : workers[j].storedReg /\ workers[j].storedLogin

GoGetRegistration(i) ==
    /\ AllStored
    /\ ~workers[i].gotReg
    /\ sessions' = getMap(registrationKey(i))
    /\ workers' = [workers EXCEPT ![i].gotReg = TRUE, ![i].gotAt = now,
                                  ![i].got = getData(registrationKey(i))]
    /\ errors' = IF getErr(registrationKey(i)) # "" THEN errors + 1 ELSE errors
    /\ UNCHANGED <<now, hist, last, nStores, dbVars, sideVars>>

\* ------------------------------------------------------- repository
\* The users of the database, each registered: RegisterFinish has stored one
\* credential and one batch of recovery codes for each.
DBUsers == {1, 2}
\* concurrent HTTP requests
Procs == {1, 2}

\* The plaintext codes are drawn at random from 31^12 strings: the model
\* gives the n-th code of the b-th generated batch the name [batch, n], so
\* two generated codes never coincide.
Code(b, n) == [batch |-> b, n |-> n]
WrongCode == Code(0, 0)
MaxBatches == Cardinality(DBUsers) + MaxRegens
\* the codes a client presents: the first code of any batch, or none of them
Presented == {Code(b, 1) : b \in 1..MaxBatches} \cup {WrongCode}

\* bcrypt.GenerateFromPassword and bcrypt.CompareHashAndPassword
GenerateFromPassword(pw) == [bcrypt |-> pw]
CompareHashAndPassword(hash, pw) == hash.bcrypt = pw

\* SELECT * FROM recovery_codes WHERE user_id = ? AND used = 0
GetUnusedRecoveryCodesAnyUse(userID) == {r \in codes : r.user = userID}
GetUnusedRecoveryCodes(userID) == {r \in codes : r.user = userID /\ ~r.used}

\* SELECT COUNT(*) FROM recovery_codes WHERE user_id = ? AND used = 0
UnusedCount(table, userID) == Cardinality({r \in table : r.user = userID /\ ~r.used})
GetUnusedRecoveryCodeCount(userID) == UnusedCount(codes, userID)

\* UPDATE recovery_codes SET used = 1 WHERE id = ?: the table after it
MarkRecoveryCodeUsed(codeID) ==
    {IF r.id = codeID THEN [r EXCEPT !.used = TRUE, !.wins = IF @ < 2 THEN @ + 1 ELSE @]
     ELSE r : r \in codes}

\* DELETE FROM recovery_codes WHERE user_id = ?: the table after it
DeleteRecoveryCodes(userID) == {r \in codes : r.user # userID}

\* SELECT COUNT(*) FROM credentials WHERE user_id = ?
CountUserCredentials(userID) == Cardinality({c \in credentials : c.user = userID})

\* DELETE FROM credentials WHERE id = ? AND user_id = ?: the table after it
DeleteCredentialRow(credID, userID) ==
    {c \in credentials : ~(c.id = credID /\ c.user = userID)}

\* the loop of ValidateAndUseRecoveryCode over the selected rows, in id order:
\* the rows that match, and the first of them
Matching(rows, code) == {r \in rows : CompareHashAndPassword(r.hash, code)}
FirstMatch(rows, code) ==
    CHOOSE r \in Matching(rows, code) : \A q \in Matching(rows, code) : r.id <= q.id

\* what became of a presented code before the call: "fresh" when it is the
\* code of a row of the user that has let no call succeed, "spent" when it is
\* the code of a row that has, "none" when it is no code of the user
Standing(userID, code) ==
    LET mine == {r \in codes : r.user = userID /\ CompareHashAndPassword(r.hash, code)}
    IN IF mine = {} THEN "none"
       ELSE IF \E r \in mine : r.wins = 0 THEN "fresh"
       ELSE "spent"

Idle == [pc |-> "idle"]
NoResponse == [kind |-> "none", status |-> 0, body |-> "",
               ok |-> FALSE, lowered |-> 0, touched |-> FALSE, was |-> "none",
               made |-> FALSE, cookie |-> FALSE,
               cookieFor |-> 0, verified |-> 0, found |-> 0, hlen |-> 0,
               why |-> "", updated |-> "", sessFail |-> FALSE]
Response(kind, status, body) ==
    [NoResponse EXCEPT !.kind = kind, !.status = status, !.body = body]

DBInit ==
    /\ credentials = {[id |-> u, user |-> u] : u \in DBUsers}
    /\ nextCredID = Cardinality(DBUsers) + 1
    /\ codes = {[id |-> (u - 1) * CodeCount + n, user |-> u,
                 hash |-> GenerateFromPassword(Code(u, n)), used |-> FALSE,
                 wins |-> 0] :
                    u \in DBUsers, n \in 1..CodeCount}
    /\ nextCodeID = Cardinality(DBUsers) * CodeCount + 1
    /\ nBatches = Cardinality(DBUsers)
    /\ req = [p \in Procs |-> Idle]
    /\ dbLast = NoResponse
    /\ users = DBUsers

\* RecoveryLogin once the code is found valid: sessions.Create for the user
\* GetUserByUsername has found
recoverySession(userID, sessFail) ==
    IF sessFail
    THEN [Response("recovery", 500, "failed to create session") EXCEPT !.sessFail = TRUE]
    ELSE [Response("recovery", 200, "ok") EXCEPT !.cookie = TRUE, !.cookieFor = userID]

\* --- RecoveryLogin -> ValidateAndUseRecoveryCode, statement by statement
\* GetUnusedRecoveryCodes: the SELECT
ValidateAndUse_Select(p, userID, code, fail) ==
    /\ req[p].pc = "idle"
    /\ IF fail
       THEN /\ dbLast' = Response("recovery", 500, "validation error")
            /\ UNCHANGED req
       ELSE /\ req' = [req EXCEPT ![p] =
                          [pc |-> "mark", user |-> userID, code |-> code,
                           rows |-> {[id |-> r.id, hash |-> r.hash] :
                                        r \in GetUnusedRecoveryCodes(userID)},
                           was |-> Standing(userID, code)]]
            /\ UNCHANGED dbLast
    /\ UNCHANGED <<credentials, codes, nextCredID, nextCodeID, nBatches>>
    /\ UNCHANGED <<storeVars, testVars, sideVars, users>>

\* the loop, MarkRecoveryCodeUsed on the first match, and the return
ValidateAndUse_Mark(p, fail) ==
    /\ req[p].pc = "mark"
    /\ LET userID == req[p].user
           code == req[p].code
           found == Matching(req[p].rows, code) # {}
       IN IF ~found
          THEN /\ ~fail
               /\ dbLast' = [Response("recovery", 401, "invalid username or recovery code")
                               EXCEPT !.was = req[p].was]
               /\ UNCHANGED codes
          ELSE IF fail
          THEN /\ dbLast' = [Response("recovery", 500, "validation error")
                               EXCEPT !.was = req[p].was]
               /\ UNCHANGED codes
          ELSE /\ codes' = MarkRecoveryCodeUsed(FirstMatch(req[p].rows, code).id)
               /\ \E sessFail \in BOOLEAN :
                     dbLast' = [recoverySession(userID, sessFail)
                                  EXCEPT !.ok = TRUE,
                                         !.was = req[p].was,
                                         !.lowered = GetUnusedRecoveryCodeCount(userID)
                                                       - UnusedCount(codes', userID),
                                         !.touched = codes' # codes]
    /\ req' = [req EXCEPT ![p] = Idle]
    /\ UNCHANGED <<credentials, nextCredID, nextCodeID, nBatches>>
    /\ UNCHANGED <<storeVars, testVars, sideVars, users>>

\* --- RegenerateRecoveryCodes, statement by statement
\* DeleteRecoveryCodes, then GenerateCodes
Regenerate_Delete(p, userID, fail, genFail) ==
    /\ req[p].pc = "idle"
    /\ nBatches < MaxBatches
    /\ IF fail
       THEN /\ dbLast' = Response("regenerate", 500, "failed to regenerate codes")
            /\ UNCHANGED <<codes, nBatches, req>>
       ELSE /\ codes' = DeleteRecoveryCodes(userID)
            /\ IF genFail
               THEN /\ dbLast' = Response("regenerate", 500, "failed to generate codes")
                    /\ UNCHANGED <<nBatches, req>>
               ELSE /\ nBatches' = nBatches + 1
                    /\ req' = [req EXCEPT ![p] =
                                 [pc |-> "insert", user |-> userID,
                                  batch |-> nBatches + 1, k |-> 0]]
                    /\ UNCHANGED dbLast
    /\ UNCHANGED <<credentials, nextCredID, nextCodeID>>
    /\ UNCHANGED <<storeVars, testVars, sideVars, users>>

\* CreateRecoveryCodes: one INSERT of its loop; after the last one, SetFlash
\* and the response
Regenerate_Insert(p, fail, flashFail) ==
    /\ req[p].pc = "insert"
    /\ LET userID == req[p].user
           k == req[p].k + 1
       IN IF fail
          THEN /\ dbLast' = Response("regenerate", 500, "failed to store codes")
               /\ req' = [req EXCEPT ![p] = Idle]
               /\ UNCHANGED <<codes, nextCodeID>>
          ELSE /\ codes' = codes \cup
                              {[id |-> nextCodeID, user |-> userID,
                                hash |-> GenerateFromPassword(Code(req[p].batch, k)),
                                used |-> FALSE, wins |-> 0]}
               /\ nextCodeID' = nextCodeID + 1
               /\ IF k < CodeCount
                  THEN /\ ~flashFail
                       /\ req' = [req EXCEPT ![p].k = k]
                       /\ UNCHANGED dbLast
                  ELSE /\ req' = [req EXCEPT ![p] = Idle]
                       /\ dbLast' = IF flashFail
                                    THEN Response("regenerate", 500, "failed to store codes")
                                    ELSE Response("regenerate", 200, "ok")
    /\ UNCHANGED <<credentials, nextCredID, nBatches>>
    /\ UNCHANGED <<storeVars, testVars, sideVars, users>>

\* --- DeleteCredential, statement by statement
\* CountUserCredentials and the test count <= 1
DeleteCredential_Count(p, userID, credID, fail) ==
    /\ req[p].pc = "idle"
    /\ IF fail
       THEN /\ dbLast' = Response("delete", 500, "database error")
            /\ UNCHANGED req
       ELSE IF CountUserCredentials(userID) <= 1
       THEN /\ dbLast' = Response("delete", 400, "cannot delete last credential")
            /\ UNCHANGED req
       ELSE /\ req' = [req EXCEPT ![p] = [pc |-> "delete", user |-> userID, cred |-> credID]]
            /\ UNCHANGED dbLast
    /\ UNCHANGED <<credentials, codes, nextCredID, nextCodeID, nBatches>>
    /\ UNCHANGED <<storeVars, testVars, sideVars, users>>

\* Repository.DeleteCredential and the response
DeleteCredential_Delete(p, fail) ==
    /\ req[p].pc = "delete"
    /\ IF fail
       THEN /\ dbLast' = Response("delete", 500, "failed to delete credential")
            /\ UNCHANGED credentials
       ELSE /\ credentials' = DeleteCredentialRow(req[p].cred, req[p].user)
            /\ dbLast' = Response("delete", 200, "ok")
    /\ req' = [req EXCEPT ![p] = Idle]
    /\ UNCHANGED <<codes, nextCredID, nextCodeID, nBatches>>
    /\ UNCHANGED <<storeVars, testVars, sideVars, users>>

\* Repository.CreateCredential, as AddCredentialFinish calls it after a
\* successful FinishRegistration
CreateCredential(userID) ==
    /\ nextCredID <= MaxCreds
    /\ credentials' = credentials \cup {[id |-> nextCredID, user |-> userID]}
    /\ nextCredID' = nextCredID + 1
    /\ dbLast' = Response("add", 200, "ok")
    /\ UNCHANGED <<codes, nextCodeID, nBatches, req>>
    /\ UNCHANGED <<storeVars, testVars, sideVars, users>>

\* ------------------------------------------------------- ceremonies
\* The registration handlers in username mode (UseEmailMode() false), each
\* as one step.  The failures of WebAuthn, of the database and of the cookie
\* encoder are inputs.

\* cc.IsAuthenticated(): the request carries a session cookie of u; the
\* handlers that issue one all need a user that has completed a registration
IsAuthenticated(u) == u \in users /\ CountUserCredentials(u) >= 1

\* the rows CreateRecoveryCodes has inserted after k INSERTs of batch b
InsertedCodes(userID, b, k) ==
    {[id |-> nextCodeID + n - 1, user |-> userID,
      hash |-> GenerateFromPassword(Code(b, n)), used |-> FALSE, wins |-> 0] :
         n \in 1..k}

RegisterBeginFailures == {"", "exists", "create", "begin"}
\* what err.Error() of a failed FinishRegistration can read
FinishRegistrationErrors == {"Error validating challenge", "Error validating origin"}

\* RegisterFinish: the email branch is taken in email mode with verification
\* required (users created by CreateUserWithEmail have an Email)
VerificationPending == cfg.emailMode /\ cfg.requireVerification

RegisterFinishFailures ==
    {"", "user", "credential", "generate", "codes", "flash"} \cup FinishRegistrationErrors
       \cup (IF VerificationPending THEN {"token", "tokenStore"} ELSE {"session"})
AddCredentialFinishFailures == {"", "credential"} \cup FinishRegistrationErrors

\* RegisterFinish once the recovery codes are stored
RegisterFinishResponse(userID, fail) ==
    IF VerificationPending
    THEN IF fail = "token"
         THEN [Response("registerFinish", 500, "failed to generate verification token")
                 EXCEPT !.made = TRUE, !.verified = userID]
         ELSE IF fail = "tokenStore"
         THEN [Response("registerFinish", 500, "failed to store verification token")
                 EXCEPT !.made = TRUE, !.verified = userID]
         ELSE [Response("registerFinish", 200, "ok")
                 EXCEPT !.made = TRUE, !.verified = userID]
    ELSE IF fail = "session"
    THEN [Response("registerFinish", 500, "failed to create session")
            EXCEPT !.made = TRUE, !.verified = userID]
    ELSE IF fail = "flash"
    THEN [Response("registerFinish", 500, "failed to store recovery codes")
            EXCEPT !.made = TRUE, !.verified = userID,
                   !.cookie = TRUE, !.cookieFor = userID]
    ELSE [Response("registerFinish", 200, "ok")
            EXCEPT !.made = TRUE, !.verified = userID,
                   !.cookie = TRUE, !.cookieFor = userID]

RegisterBegin(fail) ==
    /\ Cardinality(users) < MaxUsers
    /\ LET userID == Cardinality(users) + 1
       IN IF fail = "exists"
          THEN /\ dbLast' = Response("registerBegin", 409, "username already taken")
               /\ UNCHANGED <<users, sessions, hist, last, nStores>>
          ELSE IF fail = "create"
          THEN /\ dbLast' = Response("registerBegin", 500, "failed to create user")
               /\ UNCHANGED <<users, sessions, hist, last, nStores>>
          ELSE /\ users' = users \cup {userID}
               /\ IF fail = "begin"
                  THEN /\ dbLast' = Response("registerBegin", 500,
                                             "failed to begin registration")
                       /\ UNCHANGED <<sessions, hist, last, nStores>>
                  ELSE /\ StoreCall(RegId(userID))
                       /\ dbLast' = Response("registerBegin", 200, "ok")
    /\ UNCHANGED <<now, testVars, sideVars, credentials, codes, nextCredID, nextCodeID, nBatches, req>>

RegisterFinish(userID, fail, k) ==
    /\ GetCall(RegId(userID))
    /\ IF getErr(registrationKey(userID)) # ""
       THEN /\ dbLast' = Response("registerFinish", 400, "registration session expired")
            /\ UNCHANGED <<credentials, codes, nextCredID, nextCodeID, nBatches>>
       ELSE IF userID \notin users \/ fail = "user"
       THEN /\ dbLast' = Response("registerFinish", 404, "user not found")
            /\ UNCHANGED <<credentials, codes, nextCredID, nextCodeID, nBatches>>
       ELSE IF fail \in FinishRegistrationErrors
       THEN /\ dbLast' = Response("registerFinish", 400, "registration failed: " \o fail)
            /\ UNCHANGED <<credentials, codes, nextCredID, nextCodeID, nBatches>>
       ELSE IF fail = "credential"
       THEN /\ dbLast' = Response("registerFinish", 500, "failed to store credential")
            /\ UNCHANGED <<credentials, codes, nextCredID, nextCodeID, nBatches>>
       ELSE /\ nextCredID <= MaxCreds
            /\ credentials' = credentials \cup {[id |-> nextCredID, user |-> userID]}
            /\ nextCredID' = nextCredID + 1
            /\ IF fail = "generate"
               THEN /\ dbLast' = [Response("registerFinish", 500,
                                           "failed to generate recovery codes")
                                    EXCEPT !.made = TRUE, !.verified = userID]
                    /\ UNCHANGED <<codes, nextCodeID, nBatches>>
               ELSE /\ nBatches < MaxBatches
                    /\ nBatches' = nBatches + 1
                    /\ IF fail = "codes"
                       THEN /\ codes' = codes \cup InsertedCodes(userID, nBatches + 1, k)
                            /\ nextCodeID' = nextCodeID + k
                            /\ dbLast' = [Response("registerFinish", 500,
                                                   "failed to store recovery codes")
                                            EXCEPT !.made = TRUE, !.verified = userID]
                       ELSE /\ codes' = codes \cup
                                           InsertedCodes(userID, nBatches + 1, CodeCount)
                            /\ nextCodeID' = nextCodeID + CodeCount
                            /\ dbLast' = RegisterFinishResponse(userID, fail)
    /\ tokens' = IF /\ getErr(registrationKey(userID)) = ""
                    /\ userID \in users
                    /\ VerificationPending
                    /\ fail \in {"", "flash"}
                 THEN tokens \cup {userID}
                 ELSE tokens
    /\ UNCHANGED <<now, nStores, testVars, handleVars, hubVars, genVars, cfg, emailVerified, signCounts,
                   seen, req, users>>

AddCredentialBegin(u, fail) ==
    /\ IF ~IsAuthenticated(u)
       THEN /\ dbLast' = Response("addBegin", 401, "not authenticated")
            /\ UNCHANGED <<sessions, hist, last, nStores>>
       ELSE IF fail
       THEN /\ dbLast' = Response("addBegin", 500, "failed to begin registration")
            /\ UNCHANGED <<sessions, hist, last, nStores>>
       ELSE /\ StoreCall(RegId(u))
            /\ dbLast' = Response("addBegin", 200, "ok")
    /\ UNCHANGED <<now, testVars, sideVars, credentials, codes, nextCredID, nextCodeID, nBatches,
                   req, users>>

AddCredentialFinish(u, fail) ==
    /\ IF ~IsAuthenticated(u)
       THEN /\ dbLast' = Response("addFinish", 401, "not authenticated")
            /\ UNCHANGED <<sessions, hist, last, credentials, nextCredID>>
       ELSE /\ GetCall(RegId(u))
            /\ IF getErr(registrationKey(u)) # ""
               THEN /\ dbLast' = Response("addFinish", 400, "registration session expired")
                    /\ UNCHANGED <<credentials, nextCredID>>
               ELSE IF fail \in FinishRegistrationErrors
               THEN /\ dbLast' = Response("addFinish", 400, "registration failed: " \o fail)
                    /\ UNCHANGED <<credentials, nextCredID>>
               ELSE IF fail = "credential"
               THEN /\ dbLast' = Response("addFinish", 500, "failed to store credential")
                    /\ UNCHANGED <<credentials, nextCredID>>
               ELSE /\ nextCredID <= MaxCreds
                    /\ credentials' = credentials \cup {[id |-> nextCredID, user |-> u]}
                    /\ nextCredID' = nextCredID + 1
                    /\ dbLast' = [Response("addFinish", 200, "ok") EXCEPT !.made = TRUE]
    /\ UNCHANGED <<now, nStores, testVars, sideVars, codes, nextCodeID, nBatches, req, users>>

\* ------------------------------------------------------- user handle
\* An int64 or uint64 value is written as its 64 bits: four 16-bit limbs, most
\* significant first.  The conversions uint64(x) and int64(x) keep the bits;
\* an int64 is negative when the top bit is set.
Int64(n) == <<0, 0, n \div 65536, n % 65536>>
IsNonNegative(x) == x[1] < 32768
\* the int64 as a row id of the model, 0 when it is none of them
RowID(x) == IF x[1] = 0 /\ x[2] = 0 /\ x[3] = 0 THEN x[4] ELSE 0

\* binary.BigEndian.PutUint64 into a buffer of 8 bytes
PutUint64LittleEndian(v) ==
    <<v[4] % 256, v[4] \div 256, v[3] % 256, v[3] \div 256,
      v[2] % 256, v[2] \div 256, v[1] % 256, v[1] \div 256>>
PutUint64(v) ==
    <<v[1] \div 256, v[1] % 256, v[2] \div 256, v[2] % 256,
      v[3] \div 256, v[3] % 256, v[4] \div 256, v[4] % 256>>
\* binary.BigEndian.Uint64: the first 8 bytes of b
Uint64(b) ==
    <<b[1] * 256 + b[2], b[3] * 256 + b[4], b[5] * 256 + b[6], b[7] * 256 + b[8]>>

\* User.WebAuthnID
WebAuthnID(id) == PutUint64(id)

\* the ids the round trip is run on: every limb at its least, its greatest and
\* around a byte boundary, from 0 to 2^63 - 1
SampleIDs ==
    {<<a, b, c, d>> : a \in {0, 32767}, b \in {0, 1, 256, 65535},
                      c \in {0, 1, 256, 65535}, d \in {0, 1, 256, 65535}}

HandleIdle ==
    /\ wid = <<Int64(1), Int64(2)>>
    /\ handle = << >>
    /\ decoded = << >>

HandleInit ==
    /\ wid \in SampleIDs \X SampleIDs
    /\ handle = << >>
    /\ decoded = << >>

\* WebAuthnID of the two users
EncodeHandles ==
    /\ handle = << >>
    /\ handle' = <<WebAuthnID(wid[1]), WebAuthnID(wid[2])>>
    /\ UNCHANGED <<wid, decoded, storeVars, testVars, dbVars, loginVars, hubVars, genVars>>

\* userID := int64(binary.BigEndian.Uint64(userHandle)) in the callback
DecodeHandles ==
    /\ handle # << >>
    /\ decoded = << >>
    /\ decoded' = <<Uint64(handle[1]), Uint64(handle[2])>>
    /\ UNCHANGED <<wid, handle, storeVars, testVars, dbVars, loginVars, hubVars, genVars>>

\* ------------------------------------------------------- sse.Hub
\* Register, Unregister and Broadcast hold the lock for the whole call and
\* are one step each.  SendToSession and SendToUser read the map under the
\* read lock, release it and then send: the read is one step and every send
\* to a channel is one step, so that Register and Unregister can run between
\* them.  One goroutine sends.

\* make(chan string, 10)
BufSize == 10

HubSessions == {"session1", "session2"}
HubUsers == {1, 2}
Messages == {"event"}

\* a Go map: the elements of m[k], the zero value for a missing key
MapGet(m, k) == IF k \in DOMAIN m THEN m[k] ELSE << >>
MapPut(m, k, v) == [x \in DOMAIN m \cup {k} |-> IF x = k THEN v ELSE m[x]]
MapDelete(m, k) == [x \in DOMAIN m \ {k} |-> m[x]]

\* lo.Contains
Contains(collection, element) == \E i \in 1..Len(collection) : collection[i] = element

NewHub ==
    /\ clients = << >>
    /\ userSessions = << >>
    /\ chans = << >>
    /\ send = [pc |-> "idle", kind |-> "none", session |-> "", user |-> 0,
               message |-> "", sessionIDs |-> << >>, clients |-> << >>,
               got |-> {}, dropped |-> {}]

notHub == <<storeVars, testVars, dbVars, handleVars, loginVars, genVars>>

Register(sessionID, userID) ==
    /\ Len(chans) < MaxChans
    /\ LET ch == Len(chans) + 1
       IN /\ chans' = Append(chans, [buf |-> << >>, closed |-> FALSE,
                                     session |-> sessionID, user |-> userID])
          /\ clients' = MapPut(clients, sessionID,
                               Append(MapGet(clients, sessionID),
                                      [ch |-> ch, userID |-> userID]))
          /\ userSessions' =
               IF ~Contains(MapGet(userSessions, userID), sessionID)
               THEN MapPut(userSessions, userID,
                           Append(MapGet(userSessions, userID), sessionID))
               ELSE userSessions
    /\ UNCHANGED <<send, notHub>>

\* vacated entries of userSessions when the session of sessionID has no
\* client left
removeSession(sessionID, userID) ==
    LET left == SelectSeq(MapGet(userSessions, userID), LAMBDA s : s # sessionID)
    IN IF Len(left) = 0
       THEN MapDelete(userSessions, userID)
       ELSE MapPut(userSessions, userID, left)

\* a channel is unregistered at most once, with the ids it was registered with
Unregister(sessionID, userID, ch) ==
    /\ ch \in 1..Len(chans)
    /\ ~chans[ch].closed
    /\ chans[ch].session = sessionID
    /\ chans[ch].user = userID
    /\ LET left == SelectSeq(MapGet(clients, sessionID), LAMBDA c : c.ch # ch)
       IN IF Len(left) = 0
          THEN /\ clients' = MapDelete(clients, sessionID)
               /\ userSessions' = removeSession(sessionID, userID)
          ELSE /\ clients' = MapPut(clients, sessionID, left)
               /\ UNCHANGED userSessions
    /\ chans' = [chans EXCEPT ![ch].closed = TRUE]
    /\ UNCHANGED <<send, notHub>>

\* SendToSession up to RUnlock
SendToSession(sessionID, message) ==
    /\ send.pc = "idle"
    /\ send' = [pc |-> "clients", kind |-> "session", session |-> sessionID,
                user |-> 0, message |-> message, sessionIDs |-> << >>,
                clients |-> MapGet(clients, sessionID), got |-> {}, dropped |-> {}]
    /\ UNCHANGED <<clients, userSessions, chans, notHub>>

\* SendToUser up to RUnlock
SendToUser(userID, message) ==
    /\ send.pc = "idle"
    /\ send' = [pc |-> "sessions", kind |-> "user", session |-> "",
                user |-> userID, message |-> message,
                sessionIDs |-> MapGet(userSessions, userID),
                clients |-> << >>, got |-> {}, dropped |-> {}]
    /\ UNCHANGED <<clients, userSessions, chans, notHub>>

\* the call returns; got and dropped keep the channels it reached
Returned == send' = [send EXCEPT !.pc = "idle"]

\* SendToUser: the loop over sessionIDs, up to RUnlock of the SendToSession
\* it calls
SendToUser_Next ==
    /\ send.pc = "sessions"
    /\ IF send.sessionIDs = << >>
       THEN Returned
       ELSE send' = [send EXCEPT !.pc = "clients",
                                 !.clients = MapGet(clients, Head(send.sessionIDs)),
                                 !.sessionIDs = Tail(send.sessionIDs)]
    /\ UNCHANGED <<clients, userSessions, chans, notHub>>

\* SendToSession: one turn of the loop over the clients read; a send on a
\* closed channel panics also inside a select with a default case
SendToSession_Send ==
    /\ send.pc = "clients"
    /\ IF send.clients = << >>
       THEN /\ IF send.kind = "user"
               THEN send' = [send EXCEPT !.pc = "sessions"]
               ELSE Returned
            /\ UNCHANGED chans
       ELSE LET c == Head(send.clients)
            IN IF chans[c.ch].closed
               THEN /\ send' = [send EXCEPT !.pc = "panicked"]
                    /\ UNCHANGED chans
               ELSE IF Len(chans[c.ch].buf) < BufSize
               THEN /\ chans' = [chans EXCEPT ![c.ch].buf = Append(@, send.message)]
                    /\ send' = [send EXCEPT !.clients = Tail(@),
                                            !.got = @ \cup {c.ch}]
               ELSE /\ send' = [send EXCEPT !.clients = Tail(@),
                                            !.dropped = @ \cup {c.ch}]
                    /\ UNCHANGED chans
    /\ UNCHANGED <<clients, userSessions, notHub>>

\* the channels in h.clients
Connected ==
    UNION {{clients[s][i].ch : i \in 1..Len(clients[s])} : s \in DOMAIN clients}

Broadcast(message) ==
    /\ chans' = [ch \in DOMAIN chans |->
                    IF ch \in Connected /\ Len(chans[ch].buf) < BufSize
                    THEN [chans[ch] EXCEPT !.buf = Append(@, message)]
                    ELSE chans[ch]]
    /\ UNCHANGED <<clients, userSessions, send, notHub>>

\* the Events handler takes a message from its channel
Receive(ch) ==
    /\ ch \in 1..Len(chans)
    /\ ~chans[ch].closed
    /\ chans[ch].buf # << >>
    /\ chans' = [chans EXCEPT ![ch].buf = Tail(@)]
    /\ UNCHANGED <<clients, userSessions, send, notHub>>

RECURSIVE SumLen(_, _)
SumLen(m, keys) ==
    IF keys = {} THEN 0
    ELSE LET k == CHOOSE x \in keys : TRUE
         IN Len(m[k]) + SumLen(m, keys \ {k})

ClientCount == SumLen(clients, DOMAIN clients)
SessionCount == Cardinality(DOMAIN clients)
UserCount == Cardinality(DOMAIN userSessions)

\* no channel holds MaxQueued messages or more
Quiet == \A ch \in 1..Len(chans) : Len(chans[ch].buf) < MaxQueued

\* sessions of two users; a send begins while the channels are quiet
NextHub ==
    \/ \E s \in HubSessions, u \in HubUsers : Register(s, u)
    \/ \E s \in HubSessions, u \in HubUsers, ch \in 1..MaxChans : Unregister(s, u, ch)
    \/ Quiet /\ \E s \in HubSessions, m \in Messages : SendToSession(s, m)
    \/ Quiet /\ \E u \in HubUsers, m \in Messages : SendToUser(u, m)
    \/ SendToUser_Next
    \/ SendToSession_Send
    \/ Quiet /\ \E m \in Messages : Broadcast(m)
    \/ \E ch \in 1..MaxChans : Receive(ch)

\* one session of one user, its channels filled to the brim
NextHubFull ==
    \/ Register("session1", 1)
    \/ \E ch \in 1..MaxChans : Unregister("session1", 1, ch)
    \/ \E m \in Messages : SendToSession("session1", m)
    \/ \E m \in Messages : SendToUser(1, m)
    \/ SendToUser_Next
    \/ SendToSession_Send
    \/ \E m \in Messages : Broadcast(m)
    \/ \E ch \in 1..MaxChans : Receive(ch)

\* ------------------------------------------------- recovery code service
\* Strings are sequences of characters here, each character a string of
\* length one, so that they can be indexed, cut and mapped.
CodeLength == 12

alphabetAlphanumeric ==
    <<"0", "1", "2", "3", "4", "5", "6", "7", "8", "9",
      "a", "b", "c", "d", "e", "f", "g", "h", "i", "j", "k", "l", "m",
      "n", "o", "p", "q", "r", "s", "t", "u", "v", "w", "x", "y", "z">>
alphabet ==
    <<"2", "3", "4", "5", "6", "7", "8", "9",
      "a", "b", "c", "d", "e", "f", "g", "h", "j", "k", "m",
      "n", "p", "q", "r", "s", "t", "u", "v", "w", "x", "y", "z">>

upperLetters ==
    <<"A", "B", "C", "D", "E", "F", "G", "H", "I", "J", "K", "L", "M",
      "N", "O", "P", "Q", "R", "S", "T", "U", "V", "W", "X", "Y", "Z">>
lowerLetters ==
    <<"a", "b", "c", "d", "e", "f", "g", "h", "i", "j", "k", "l", "m",
      "n", "o", "p", "q", "r", "s", "t", "u", "v", "w", "x", "y", "z">>

\* unicode.ToLower and unicode.ToUpper on one character
toLower(c) ==
    IF \E i \in 1..26 : upperLetters[i] = c
    THEN lowerLetters[CHOOSE i \in 1..26 : upperLetters[i] = c] ELSE c
toUpper(c) ==
    IF \E i \in 1..26 : lowerLetters[i] = c
    THEN upperLetters[CHOOSE i \in 1..26 : lowerLetters[i] = c] ELSE c

\* strings.ToLower and strings.ToUpper
ToLower(s) == [i \in 1..Len(s) |-> toLower(s[i])]
ToUpper(s) == [i \in 1..Len(s) |-> toUpper(s[i])]

RECURSIVE ReplaceAll(_, _, _)
\* strings.ReplaceAll for an old string of one character
ReplaceAll(s, old, new) ==
    IF s = << >> THEN << >>
    ELSE (IF Head(s) = old THEN new ELSE <<Head(s)>>) \o ReplaceAll(Tail(s), old, new)

RECURSIVE Join(_, _)
\* strings.Join
Join(parts, sep) ==
    IF parts = << >> THEN << >>
    ELSE IF Len(parts) = 1 THEN parts[1]
    ELSE parts[1] \o sep \o Join(Tail(parts), sep)

min(a, b) == IF a < b THEN a ELSE b

\* generateCode: the code made of the bytes rand.Read has filled in
generateCode(bytes) == [i \in 1..Len(bytes) |-> alphabet[(bytes[i] % Len(alphabet)) + 1]]

\* formatCode: the parts code[i:end] for i = 0, 4, 8, ..., joined
formatCode(code) ==
    Join([j \in 1..((Len(code) + 3) \div 4) |->
            SubSeq(code, 4 * (j - 1) + 1, min(4 * j, Len(code)))], <<"-">>)

NormalizeCodeKeepCase(code) == ReplaceAll(code, "-", << >>)
NormalizeCode(code) == ToLower(ReplaceAll(code, "-", << >>))

\* What crypto/rand delivers: the byte at one position of the first code takes
\* any value, the other bytes of the i-th code are i - 1, and the byte at the
\* position moves on by one with every code.  The position is the first or
\* the last of the code, or one on either side of the first hyphen.
RandomStreams == [at : {1, 4, 5, CodeLength}, byte : 0..255]
Read(stream, i) ==
    [j \in 1..CodeLength |-> IF j = stream.at THEN (stream.byte + i - 1) % 256 ELSE i - 1]

NoEntry == [index |-> 0, typed |-> << >>, normalized |-> << >>, valid |-> FALSE]

NoCodes ==
    /\ gen = [called |-> FALSE, count |-> 0, stream |-> [at |-> 1, byte |-> 0],
              code |-> << >>, plaintexts |-> << >>, hashes |-> << >>, err |-> ""]
    /\ entry = NoEntry

GenerateCodesFailures == {"", "failed to generate code", "failed to hash code"}

\* Service.GenerateCodes; code keeps what was hashed, which the caller never sees
GenerateCodes(count, stream, fail) ==
    LET n == IF count <= 0 THEN CodeCount ELSE count
        code == [i \in 1..n |-> generateCode(Read(stream, i))]
    IN /\ gen' = IF fail # ""
                 THEN [called |-> TRUE, count |-> count, stream |-> stream, code |-> << >>,
                       plaintexts |-> << >>, hashes |-> << >>, err |-> fail]
                 ELSE [called |-> TRUE, count |-> count, stream |-> stream, code |-> code,
                       plaintexts |-> [i \in 1..n |-> formatCode(code[i])],
                       hashes |-> [i \in 1..n |-> GenerateFromPassword(code[i])],
                       err |-> ""]
       /\ entry' = NoEntry
       /\ UNCHANGED <<storeVars, testVars, dbVars, handleVars, loginVars, hubVars>>

\* the ways a user copies a displayed code: as shown, in capitals, without
\* the separators, both, or with every other character in capitals
Typings == {"shown", "upper", "bare", "bareUpper", "mixed"}
Typed(plaintext, how) ==
    CASE how = "shown" -> plaintext
      [] how = "upper" -> ToUpper(plaintext)
      [] how = "bare" -> ReplaceAll(plaintext, "-", << >>)
      [] how = "bareUpper" -> ToUpper(ReplaceAll(plaintext, "-", << >>))
      [] how = "mixed" -> [i \in 1..Len(plaintext) |->
                              IF i % 2 = 1 THEN toUpper(plaintext[i]) ELSE plaintext[i]]

\* the inputs of TestNormalizeCode and TestNormalizeCode_PreservesDigits
TestInputs ==
    {<<"a", "1", "b", "2", "-", "c", "3", "d", "4", "-", "e", "5", "f", "6">>,
     <<"A", "1", "B", "2", "-", "C", "3", "D", "4", "-", "E", "5", "F", "6">>,
     <<"a", "1", "b", "2", "c", "3", "d", "4", "e", "5", "f", "6">>,
     <<"A", "1", "B", "2", "C", "3", "D", "4", "E", "5", "F", "6">>,
     << >>,
     <<"-", "-", "-", "-">>,
     <<"2", "3", "4", "5", "-", "6", "7", "8", "9", "-", "2", "3", "4", "5">>}

\* TestGenerateCodes_HashesMatchPlaintexts, for a code typed in any of the
\* ways: NormalizeCode, then bcrypt.CompareHashAndPassword with hashes[i]
ValidateTyped(i, how) ==
    /\ gen.err = ""
    /\ i \in 1..Len(gen.plaintexts)
    /\ LET typed == Typed(gen.plaintexts[i], how)
       IN entry' = [index |-> i, typed |-> typed, normalized |-> NormalizeCode(typed),
                    valid |-> CompareHashAndPassword(gen.hashes[i], NormalizeCode(typed))]
    /\ UNCHANGED <<gen, storeVars, testVars, dbVars, handleVars, loginVars, hubVars>>

\* TestNormalizeCode: NormalizeCode on a string that is no generated code
Normalize(input) ==
    /\ entry' = [index |-> 0, typed |-> input, normalized |-> NormalizeCode(input),
                 valid |-> FALSE]
    /\ UNCHANGED <<gen, storeVars, testVars, dbVars, handleVars, loginVars, hubVars>>

\* the numbers of codes asked for: none, which stands for the default, one, the default
Counts == {0, 1, CodeCount}

\* one call of GenerateCodes, and then one code being typed
NextGenerate ==
    \/ /\ ~gen.called
       /\ \E count \in Counts, stream \in RandomStreams : GenerateCodes(count, stream, "")
    \/ /\ ~gen.called
       /\ \E count \in Counts, fail \in GenerateCodesFailures \ {""} :
             GenerateCodes(count, [at |-> 1, byte |-> 0], fail)
    \/ /\ entry = NoEntry
       /\ \E i \in 1..CodeCount, how \in Typings : ValidateTyped(i, how)
    \/ /\ entry = NoEntry
       /\ \E input \in TestInputs : Normalize(input)

\* config defaults: auth.use_email false, auth.require_verification true
LoginIdle ==
    /\ cfg = [emailMode |-> FALSE, requireVerification |-> TRUE]
    /\ emailVerified = {}
    /\ tokens = {}
    /\ signCounts = [c \in 1..MaxCreds |-> 0]
    /\ seen = {}

SideInit == HandleIdle /\ LoginIdle /\ NewHub /\ NoCodes

Init == StoreInit /\ TestInit /\ DBInit /\ SideInit

Next ==
    \/ \E u \in StoreUsers : StoreRegistrationSession(u)
    \/ \E u \in StoreUsers : GetRegistrationSession(u)
    \/ \E u \in StoreUsers : StoreLoginSession(u)
    \/ \E u \in StoreUsers : GetLoginSession(u)
    \/ \E s \in SessionIDs : StoreDiscoverableSession(s)
    \/ \E s \in SessionIDs : GetDiscoverableSession(s)
    \/ cleanup
    \/ Tick

\* the session service under arbitrary callers, the cleanup goroutine and time
Spec == Init /\ [][Next]_vars

NextConcurrent ==
    \/ \E i \in Workers : GoStoreRegistration(i)
    \/ \E i \in Workers : GoStoreLogin(i)
    \/ \E i \in Workers : GoGetRegistration(i)
    \/ cleanup
    \/ Tick

\* the goroutines of TestConcurrentAccess, the cleanup goroutine and time
SpecConcurrent == Init /\ [][NextConcurrent]_vars

CodeRequests(P) ==
    \/ \E p \in P, u \in DBUsers, c \in Presented, fail \in BOOLEAN :
          ValidateAndUse_Select(p, u, c, fail)
    \/ \E p \in P, fail \in BOOLEAN : ValidateAndUse_Mark(p, fail)
    \/ \E p \in P, u \in DBUsers, fail \in BOOLEAN, genFail \in BOOLEAN :
          Regenerate_Delete(p, u, fail, genFail)
    \/ \E p \in P, fail \in BOOLEAN, flashFail \in BOOLEAN :
          Regenerate_Insert(p, fail, flashFail)

NextCodes == CodeRequests(Procs)
NextCodesSeq == CodeRequests({1})

NextCreds ==
    \/ \E p \in Procs, u \in DBUsers, c \in 1..MaxCreds, fail \in BOOLEAN :
          DeleteCredential_Count(p, u, c, fail)
    \/ \E p \in Procs, fail \in BOOLEAN : DeleteCredential_Delete(p, fail)
    \/ \E u \in DBUsers : CreateCredential(u)

\* recovery logins and regenerations as concurrent requests, of which the
\* database sees one statement at a time
SpecCodes == Init /\ [][NextCodes]_vars

\* the same handlers, one request at a time
SpecCodesSeq == Init /\ [][NextCodesSeq]_vars

\* concurrent requests that add and delete credentials
SpecCreds == Init /\ [][NextCreds]_vars

\* the users the requests name: the one registered last and those that
\* register
CeremonyUsers == {u \in AccountIDs : u >= Cardinality(DBUsers)}

\* a failure is an input of a request only where the handler reaches the
\* call that can fail; MaxBegins bounds the ceremonies begun
NextCeremonies ==
    \/ /\ nStores < MaxBegins
       /\ \E fail \in RegisterBeginFailures : RegisterBegin(fail)
    \/ \E u \in CeremonyUsers :
          \E fail \in IF getErr(registrationKey(u)) = "" /\ u \in users
                      THEN RegisterFinishFailures ELSE {""} :
             \E k \in IF fail = "codes" THEN 0..(CodeCount - 1) ELSE {0} :
                RegisterFinish(u, fail, k)
    \/ /\ nStores < MaxBegins
       /\ \E u \in CeremonyUsers :
             \E fail \in IF IsAuthenticated(u) THEN BOOLEAN ELSE {FALSE} :
                AddCredentialBegin(u, fail)
    \/ \E u \in CeremonyUsers :
          \E fail \in IF IsAuthenticated(u) /\ getErr(registrationKey(u)) = ""
                      THEN AddCredentialFinishFailures ELSE {""} :
             AddCredentialFinish(u, fail)
    \/ cleanup
    \/ Tick

\* registrations and added passkeys, the cleanup goroutine and time
SpecCeremonies == Init /\ [][NextCeremonies]_vars

\* ------------------------------------------------------- login
\* LoginBegin, LoginFinish and VerifyEmail, each as one step.  What the
\* WebAuthn library decides (it parses the assertion, calls the handler with
\* the assertion's user handle, then verifies the assertion against the
\* credentials of the user the handler returned) is an input, as are the
\* failures of the database and of the cookie encoder.

\* the user handles an assertion can carry: those of two accounts, one of 7
\* bytes, one of 9 bytes whose first 8 are the handle of user 1, and none
UserHandles ==
    {WebAuthnID(Int64(u)) : u \in {1, MaxUsers}}
       \cup {SubSeq(WebAuthnID(Int64(1)), 1, 7), WebAuthnID(Int64(1)) \o <<0>>, << >>}

\* the handler LoginFinish passes to FinishDiscoverableLogin
userHandler(userHandle) ==
    IF Len(userHandle) < 8
    THEN [user |-> 0, err |-> "invalid user handle"]
    ELSE LET userID == RowID(Uint64(userHandle))
         IN IF userID \in users
            THEN [user |-> userID, err |-> ""]
            ELSE [user |-> 0, err |-> "record not found"]

\* FinishDiscoverableLogin: libErr is the library's own verdict ("parse"
\* before the handler is called, "signature" after it), credID the credential
\* the assertion names
FinishDiscoverableLogin(userHandle, libErr, credID) ==
    IF libErr = "parse"
    THEN [err |-> "Parse error for Assertion", why |-> "parse", user |-> 0, hlen |-> -1]
    ELSE LET h == userHandler(userHandle)
         IN IF h.err # ""
            THEN [err |-> h.err, user |-> 0, hlen |-> Len(userHandle),
                  why |-> IF Len(userHandle) < 8 THEN "handle" ELSE "user"]
            ELSE IF [id |-> credID, user |-> h.user] \notin credentials
            THEN [err |-> "Unable to find the credential for the returned user",
                  why |-> "credential", user |-> h.user, hlen |-> Len(userHandle)]
            ELSE IF libErr = "signature"
            THEN [err |-> "Error validating the assertion signature",
                  why |-> "signature", user |-> h.user, hlen |-> Len(userHandle)]
            ELSE [err |-> "", why |-> "", user |-> h.user, hlen |-> Len(userHandle)]

\* the response to finishErr != nil
loginFailedVerbatim(finishErr) == Response("loginFinish", 401, finishErr)
loginFailed(finishErr) == Response("loginFinish", 401, "login failed")

\* LoginFinish from the email verification check on, for the user the
\* login was verified for
createSession(user, sessFail) ==
    IF VerificationPending /\ user \notin emailVerified
    THEN Response("loginFinish", 403, "email_not_verified")
    ELSE IF sessFail
    THEN Response("loginFinish", 500, "failed to create session")
    ELSE [Response("loginFinish", 200, "ok") EXCEPT !.cookie = TRUE, !.cookieFor = user]

\* LoginFinish after FinishDiscoverableLogin has succeeded: the error of
\* UpdateCredentialSignCount is assigned to _
afterLoginChecked(updErr, user, sessFail) ==
    IF updErr # ""
    THEN Response("loginFinish", 500, "failed to update credential")
    ELSE createSession(user, sessFail)
afterLogin(updErr, user, sessFail) == createSession(user, sessFail)

\* UpdateCredentialSignCount
UpdateCredentialSignCount(credID, signCount) == [signCounts EXCEPT ![credID] = signCount]

\* the counter the library leaves in credential.Authenticator.SignCount
NextSignCount(credID) ==
    IF signCounts[credID] < MaxSignCount THEN signCounts[credID] + 1 ELSE signCounts[credID]

LoginBegin(fail) ==
    /\ nStores < MaxLogins
    /\ IF fail
       THEN /\ dbLast' = Response("loginBegin", 500, "failed to begin login")
            /\ UNCHANGED <<sessions, hist, last, nStores>>
       ELSE /\ \E sessionID \in SessionIDs : StoreCall(DiscId(sessionID))
            /\ dbLast' = Response("loginBegin", 200, "ok")
    /\ UNCHANGED <<now, testVars, sideVars, credentials, codes, nextCredID, nextCodeID,
                   nBatches, req, users>>

LoginFinish(sessionID, userHandle, libErr, credID, updErr, sessFail) ==
    /\ IF sessionID = ""
       THEN /\ dbLast' = Response("loginFinish", 400, "session_id is required")
            /\ UNCHANGED <<sessions, hist, last, signCounts, seen>>
       ELSE /\ GetCall(DiscId(sessionID))
            /\ IF getErr(discoverableKey(sessionID)) # ""
               THEN /\ dbLast' = Response("loginFinish", 400, "login session expired")
                    /\ UNCHANGED <<signCounts, seen>>
               ELSE LET r == FinishDiscoverableLogin(userHandle, libErr, credID)
                    IN IF r.err # ""
                       THEN /\ dbLast' = [loginFailed(r.err)
                                            EXCEPT !.why = r.why, !.found = r.user,
                                                   !.hlen = r.hlen]
                            /\ seen' = seen \cup {<<r.why, dbLast'.status, dbLast'.body,
                                                    dbLast'.cookie>>}
                            /\ UNCHANGED signCounts
                       ELSE /\ signCounts' =
                                 IF updErr = ""
                                 THEN UpdateCredentialSignCount(credID, NextSignCount(credID))
                                 ELSE signCounts
                            /\ dbLast' = [afterLogin(updErr, r.user, sessFail)
                                            EXCEPT !.verified = r.user, !.found = r.user,
                                                   !.hlen = r.hlen, !.updated = updErr,
                                                   !.sessFail = sessFail]
                            /\ UNCHANGED seen
    /\ UNCHANGED <<now, nStores, testVars, handleVars, hubVars, genVars, cfg, emailVerified, tokens,
                   credentials, codes, nextCredID, nextCodeID, nBatches, req, users>>

VerifyEmailFailures == {"", "expired", "mark", "user", "session"}

\* VerifyEmail with the token of user u
VerifyEmail(u, fail) ==
    /\ IF u \notin tokens
       THEN /\ dbLast' = Response("verifyEmail", 400, "invalid_token")
            /\ UNCHANGED <<tokens, emailVerified>>
       ELSE IF fail = "expired"
       THEN /\ tokens' = tokens \ {u}
            /\ dbLast' = Response("verifyEmail", 400, "token_expired")
            /\ UNCHANGED emailVerified
       ELSE IF fail = "mark"
       THEN /\ dbLast' = Response("verifyEmail", 500, "verification_failed")
            /\ UNCHANGED <<tokens, emailVerified>>
       ELSE /\ emailVerified' = emailVerified \cup {u}
            /\ tokens' = tokens \ {u}
            /\ dbLast' = IF fail \in {"user", "session"}
                         THEN Response("verifyEmail", 500, "verification_failed")
                         ELSE [Response("verifyEmail", 200, "ok")
                                 EXCEPT !.cookie = TRUE, !.cookieFor = u]
    /\ UNCHANGED <<storeVars, testVars, handleVars, hubVars, genVars, cfg, signCounts, seen,
                   credentials, codes, nextCredID, nextCodeID, nBatches, req, users>>

\* a deployment in either mode; in email mode with verification required, a
\* registered user has a verification token until the link is followed
LoginInit ==
    /\ cfg \in [emailMode : BOOLEAN, requireVerification : BOOLEAN]
    /\ emailVerified = {}
    /\ tokens = IF VerificationPending THEN DBUsers ELSE {}
    /\ signCounts = [c \in 1..MaxCreds |-> 0]
    /\ seen = {}

UpdateErrors == {"", "database is locked"}

\* the user that follows the verification link
VerifyUsers == {1}

\* LoginFinish requests; an input is enumerated only where the handler
\* reaches the call it feeds
LoginFinishRequests(handles, libErrs, updErrs) ==
    \E sessionID \in SessionIDs \cup {""} :
       \E userHandle \in IF sessionID # "" /\ getErr(discoverableKey(sessionID)) = ""
                         THEN handles ELSE {<< >>} :
          \E libErr \in IF userHandle # << >> THEN libErrs ELSE {""} :
             \E credID \in IF libErr = "" /\ userHandler(userHandle).err = ""
                           THEN {1, 2} ELSE {1} :
                \E updErr \in IF libErr = "" /\ userHandler(userHandle).err = ""
                              THEN updErrs ELSE {""} :
                   \E sessFail \in IF libErr = "" /\ userHandler(userHandle).err = ""
                                   THEN BOOLEAN ELSE {FALSE} :
                      LoginFinish(sessionID, userHandle, libErr, credID, updErr, sessFail)

NextLogin ==
    \/ \E fail \in BOOLEAN : LoginBegin(fail)
    \/ LoginFinishRequests(UserHandles, {"", "parse", "signature"}, UpdateErrors)
    \/ \E u \in VerifyUsers :
          \E fail \in IF u \in tokens THEN VerifyEmailFailures ELSE {""} :
             VerifyEmail(u, fail)
    \/ cleanup
    \/ Tick

\* registrations and passkey logins side by side
NextSessions ==
    \/ /\ nStores < MaxBegins
       /\ \E fail \in {"", "begin"} : RegisterBegin(fail)
    \/ \E u \in CeremonyUsers :
          \E fail \in IF getErr(registrationKey(u)) = "" /\ u \in users
                      THEN {"", "Error validating challenge", "session"} ELSE {""} :
             RegisterFinish(u, fail, 0)
    \/ \E fail \in BOOLEAN : LoginBegin(fail)
    \/ LoginFinishRequests({WebAuthnID(Int64(u)) : u \in {2, MaxUsers}}, {"", "signature"}, {""})
    \/ Tick

SpecSessions == Init /\ [][NextSessions]_vars

\* the three ways to a session in email mode, and the verification link
NextEmail ==
    \/ /\ nStores < MaxBegins
       /\ \E fail \in {"", "begin"} : RegisterBegin(fail)
    \/ \E u \in CeremonyUsers :
          \E fail \in IF getErr(registrationKey(u)) = "" /\ u \in users
                      THEN {"", "Error validating challenge", "tokenStore"} ELSE {""} :
             RegisterFinish(u, fail, 0)
    \/ LoginBegin(FALSE)
    \/ LoginFinishRequests({WebAuthnID(Int64(u)) : u \in DBUsers}, {""}, {""})
    \/ \E u \in DBUsers : ValidateAndUse_Select(1, u, Code(u, 1), FALSE)
    \/ ValidateAndUse_Mark(1, FALSE)
    \/ \E u \in VerifyUsers :
          \E fail \in IF u \in tokens THEN VerifyEmailFailures ELSE {""} :
             VerifyEmail(u, fail)

InitLogin == StoreInit /\ TestInit /\ DBInit /\ HandleIdle /\ LoginInit /\ NewHub /\ NoCodes

\* registrations, passkey logins and email verification in either mode
SpecLogin == InitLogin /\ [][NextLogin]_vars

\* email mode with verification required
InitEmail == InitLogin /\ VerificationPending

\* registration, passkey login, recovery login and email verification
SpecEmail == InitEmail /\ [][NextEmail]_vars

\* the hub with its clients and one sender
SpecHub == Init /\ [][NextHub]_vars

\* the hub with the clients of one session, which do not keep up
SpecHubFull == Init /\ [][NextHubFull]_vars

NextHandle == EncodeHandles \/ DecodeHandles

\* the user handle of two users, encoded and decoded again
InitHandle == StoreInit /\ TestInit /\ DBInit /\ HandleInit /\ LoginIdle /\ NewHub /\ NoCodes
SpecHandle == InitHandle /\ [][NextHandle]_vars

\* Ceremonies of one signed-in user that overlap: a second passkey is being
\* added from two browser tabs.  MaxStores bounds the ceremonies begun.
OverlapUsers == {Cardinality(DBUsers)}
NextOverlap ==
    \/ \E u \in OverlapUsers : AddCredentialBegin(u, FALSE)
    \/ \E u \in OverlapUsers :
          \E fail \in IF getErr(registrationKey(u)) = ""
                      THEN {"", "Error validating challenge"} ELSE {""} :
             AddCredentialFinish(u, fail)
    \/ RegisterBegin("")
    \/ \E u \in OverlapUsers \cup {MaxUsers} :
          \E fail \in IF getErr(registrationKey(u)) = "" /\ u \in users
                      THEN {"", "Error validating challenge"} ELSE {""} :
             RegisterFinish(u, fail, 0)
    \/ cleanup
    \/ Tick

SpecOverlap == Init /\ [][NextOverlap]_vars

\* Finish requests that are repeated: registrations, added passkeys and
\* passkey logins whose verification may fail, MaxLogins ceremonies in all,
\* each finished within sessionTTL if at all.
NextRetry ==
    \/ /\ nStores < MaxLogins
       /\ RegisterBegin("")
    \/ \E u \in CeremonyUsers :
          \E fail \in IF getErr(registrationKey(u)) = "" /\ u \in users
                      THEN {"", "Error validating challenge"} ELSE {""} :
             RegisterFinish(u, fail, 0)
    \/ /\ nStores < MaxLogins
       /\ \E u \in OverlapUsers : AddCredentialBegin(u, FALSE)
    \/ \E u \in OverlapUsers :
          \E fail \in IF getErr(registrationKey(u)) = ""
                      THEN {"", "Error validating origin"} ELSE {""} :
             AddCredentialFinish(u, fail)
    \/ LoginBegin(FALSE)
    \/ LoginFinishRequests({WebAuthnID(Int64(u)) : u \in {1, MaxUsers}},
                           {"", "signature"}, {""})

SpecRetry == Init /\ [][NextRetry]_vars

\* The session service with challenges whose expiry lies within the time
\* followed, so that what becomes of an abandoned one can be seen: a Store*
\* call is made only while now + sessionTTL < MaxTime.
NextAbandoned ==
    \/ /\ now + sessionTTL < MaxTime
       /\ \E u \in StoreUsers : StoreRegistrationSession(u)
    \/ /\ now + sessionTTL < MaxTime
       /\ \E s \in SessionIDs : StoreDiscoverableSession(s)
    \/ \E u \in StoreUsers : GetRegistrationSession(u)
    \/ \E s \in SessionIDs : GetDiscoverableSession(s)
    \/ cleanup
    \/ Tick

\* time passes, and the ticker of the cleanup goroutine, started by
\* newSessionStore, keeps firing: a pass that has something to remove is
\* eventually made
SpecAbandoned == Init /\ [][NextAbandoned]_vars /\ WF_vars(Tick) /\ WF_vars(cleanup)

\* the recovery code service: generation, typing and validation
SpecGenerate == Init /\ [][NextGenerate]_vars

\* ================================================================ claims
\* C1: challenge entries are single-use.  Of the Get* calls that follow a
\* Store* of the same key with no Store* in between, only the first can return
\* data: the second and every later one fails with "session not found"; and
\* after a successful get the entry is gone from the map at once.
C1_SingleUse ==
    /\ (last.op = "get" /\ hist[last.id].gets >= 2)
          => (last.err = "session not found" /\ last.data = Nil)
    /\ (last.op = "get" /\ last.err = "")
          => KeyOf(last.id) \notin DOMAIN sessions

\* a second get on a key whose first get returned the data, at a time when
\* the entry would not yet have expired
C1_Witness ==
    /\ last.op = "get"
    /\ hist[last.id].gets = 2
    /\ hist[last.id].hit
    /\ now <= hist[last.id].at + sessionTTL
    /\ last.err = "session not found"

\* C2: a get later than store time + sessionTTL never returns the data: it
\* fails as expired (entry still in the map) or as not found (entry swept by
\* the cleanup pass, or already read).
C2_ExpiredNeverReturned ==
    (last.op = "get" /\ last.late)
        => (last.data = Nil /\ last.err \in {"session expired", "session not found"})

\* a late get that found the unswept entry and reported it expired
C2_Witness ==
    /\ last.op = "get"
    /\ last.late
    /\ hist[last.id].gets = 1
    /\ last.err = "session expired"

\* the keys of two namespaces differ, whatever the user ids and session ids
C3_KeysDistinct ==
    \A u \in UserIDs, v \in UserIDs, s \in SessionIDs \cup {Itoa(w) : w \in UserIDs} :
        /\ registrationKey(u) # loginKey(v)
        /\ registrationKey(u) # discoverableKey(s)
        /\ loginKey(v) # discoverableKey(s)

\* C3: the keys of the three namespaces are pairwise distinct, an entry stored
\* through one namespace and not yet read through it stays in the map with its
\* own data until it expires whatever is stored or read through the other
\* namespaces, and a successful Get* returns the data last stored through its
\* own namespace.
C3_NamespaceIsolation ==
    /\ C3_KeysDistinct
    /\ \A id \in Ids :
          (hist[id].at # NoTime /\ hist[id].gets = 0 /\ now <= hist[id].at + sessionTTL)
             => /\ KeyOf(id) \in DOMAIN sessions
                /\ sessions[KeyOf(id)].data = hist[id].data
    /\ (last.op = "get" /\ last.err = "") => last.data = hist[last.id].data

\* user 1 and session id "1": three writes, then each namespace read once, each
\* read returning the payload of its own namespace
C3_Witness ==
    /\ nStores = 3
    /\ \A id \in {RegId(1), LoginId(1), DiscId("1")} :
          hist[id].gets = 1 /\ hist[id].hit /\ ~hist[id].over
    /\ last.op = "get"
    /\ last.data = hist[last.id].data

\* C4: a store over an unread entry replaces it: the key maps to one entry,
\* holding the value of the latest store with expiry store time + sessionTTL,
\* and no get returns anything but the latest value stored under its key.
C4_LastWriteWins ==
    /\ last.op = "store" =>
          /\ now <= hist[last.id].at + sessionTTL => KeyOf(last.id) \in DOMAIN sessions
          /\ KeyOf(last.id) \in DOMAIN sessions =>
                sessions[KeyOf(last.id)] =
                    [data |-> last.data, expiresAt |-> hist[last.id].at + sessionTTL]
    /\ last.op = "get" => last.data \in {Nil, hist[last.id].data}
    /\ \A id \in Ids :
          KeyOf(id) \in DOMAIN sessions => sessions[KeyOf(id)].data = hist[id].data

\* two stores under one key with no read between them, then a get that
\* returns the second value
C4_Witness ==
    /\ last.op = "get"
    /\ hist[last.id].over
    /\ hist[last.id].gets = 1
    /\ last.err = ""
    /\ last.data = Challenge(2)

\* C5: concurrent stores on distinct keys lose nothing.  Once the store
\* goroutines have all returned, every get made within sessionTTL of its key's
\* store returns the data stored under that key, whatever the order of the
\* goroutines; so when all gets were within the TTL the errors channel is empty.
C5_NoLostUpdates ==
    /\ \A i \in Workers :
          (workers[i].gotReg /\ workers[i].gotAt <= workers[i].at + sessionTTL)
             => workers[i].got = RegData(i)
    /\ errors = Cardinality({i \in Workers : workers[i].gotReg /\ workers[i].got = Nil})
    /\ ((\A i \in Workers : workers[i].gotReg /\ workers[i].gotAt <= workers[i].at + sessionTTL)
          => errors = 0)

\* every goroutine is done, the stores ended in the opposite order of the
\* gets, and all gets succeeded
C5_Witness ==
    /\ \A i \in Workers : workers[i].gotReg /\ workers[i].got = RegData(i)
    /\ errors = 0
    /\ workers[0].at > workers[1].at
    /\ workers[0].gotAt < workers[1].gotAt

\* C6: no recovery code lets more than one ValidateAndUseRecoveryCode call
\* return true, however the statements of concurrent recovery logins
\* interleave.
C6_AtMostOneSuccess ==
    \A r \in codes : r.wins <= 1

\* C7: every user who had a credential keeps at least one, whatever
\* DeleteCredential requests run and however their statements interleave.
C7_KeepsLastCredential ==
    \A u \in DBUsers : CountUserCredentials(u) >= 1

\* C8: outside a running regeneration a user's recovery codes all belong to
\* one batch, and that batch is whole (CodeCount rows) or, right after a
\* regeneration that invalidated the old batch and stored nothing, absent.
C8_RegenerateIsAtomic ==
    \A u \in DBUsers :
        (\A p \in Procs : ~(req[p].pc = "insert" /\ req[p].user = u))
           => LET mine == {r \in codes : r.user = u}
              IN /\ \A r \in mine, q \in mine : r.hash.bcrypt.batch = q.hash.bcrypt.batch
                 /\ Cardinality(mine) \in {0, CodeCount}

\* C9: with one request at a time a recovery code is single-use.  A call of
\* ValidateAndUseRecoveryCode returns true exactly when the code is the code
\* of a row of the user that has let no earlier call succeed, and then the
\* unused-code count of the user drops by exactly one; a call that returns
\* false changes no row; and no row lets two calls succeed.
C9_SingleUseInSequence ==
    /\ \A r \in codes : r.wins <= 1 /\ (r.used <=> r.wins = 1)
    /\ (dbLast.kind = "recovery" /\ dbLast.status \in {200, 401}) =>
          /\ dbLast.ok <=> dbLast.was = "fresh"
          /\ dbLast.ok => (dbLast.lowered = 1 /\ dbLast.touched)
          /\ ~dbLast.ok => (dbLast.lowered = 0 /\ ~dbLast.touched)

\* the second presentation of a code that was correct: the row is there,
\* marked used by the first call, and the call reports the code invalid
C9_Witness ==
    /\ dbLast.kind = "recovery"
    /\ dbLast.status = 401
    /\ ~dbLast.ok
    /\ dbLast.was = "spent"
    /\ \E r \in codes : r.used /\ r.wins = 1

\* the registration challenge the last finish request read was live: stored,
\* not read since, and not older than sessionTTL
C10_Live ==
    /\ hist[last.id].at # NoTime
    /\ hist[last.id].gets = 1
    /\ ~last.late

\* C10: a RegisterFinish, or an authenticated AddCredentialFinish, for a user
\* id without a live registration challenge answers 400 "registration session
\* expired", stores no credential and no recovery code, and sets no session
\* cookie.
C10_FinishWithoutChallenge ==
    (/\ dbLast.kind \in {"registerFinish", "addFinish"}
     /\ dbLast.status # 401
     /\ ~(last.op = "get" /\ C10_Live))
        => /\ dbLast.status = 400
           /\ dbLast.body = "registration session expired"
           /\ ~dbLast.made
           /\ ~dbLast.cookie
           /\ last.op = "get" /\ last.data = Nil

\* a finish for a user that never began, while the challenge begun for
\* another user is still live in the store
C10_Witness ==
    /\ dbLast.kind \in {"registerFinish", "addFinish"}
    /\ dbLast.status = 400
    /\ dbLast.body = "registration session expired"
    /\ last.op = "get"
    /\ hist[last.id].at = NoTime
    /\ \E u \in UserIDs :
          /\ RegId(u) # last.id
          /\ hist[RegId(u)].at # NoTime
          /\ hist[RegId(u)].gets = 0
          /\ now <= hist[RegId(u)].at + sessionTTL
          /\ registrationKey(u) \in DOMAIN sessions

\* C17: for user ids from 0 to 2^63 - 1 the handle is 8 bytes, decoding it
\* as the LoginFinish callback does gives the id back, and two different ids
\* have different handles.
C17_HandleRoundTrip ==
    /\ handle # << >> =>
          /\ \A i \in 1..2 :
                /\ Len(handle[i]) = 8
                /\ \A j \in 1..8 : handle[i][j] \in 0..255
          /\ (wid[1] # wid[2] => handle[1] # handle[2])
    /\ decoded # << >> => (decoded = wid /\ \A i \in 1..2 : IsNonNegative(decoded[i]))

\* the round trip of 2^63 - 1 next to that of another id
C17_Witness ==
    /\ decoded # << >>
    /\ wid[1] = <<32767, 65535, 65535, 65535>>
    /\ wid[2] = <<0, 0, 1, 256>>
    /\ decoded[1] = wid[1]
    /\ handle[1] = <<127, 255, 255, 255, 255, 255, 255, 255>>

\* the fixed texts the three finish handlers answer a failure with
C14_GenericMessages ==
    {"registration session expired", "user not found", "registration failed",
     "failed to store credential", "failed to generate recovery codes",
     "failed to store recovery codes", "failed to create session",
     "failed to generate verification token", "failed to store verification token",
     "not authenticated", "session_id is required", "login session expired",
     "login failed", "email_not_verified"}

\* C14: every failure response of RegisterFinish, AddCredentialFinish and
\* LoginFinish carries one of the handler's fixed messages and no text of the
\* WebAuthn library's error.
C14_OnlyGenericMessages ==
    (dbLast.kind \in {"registerFinish", "addFinish", "loginFinish"} /\ dbLast.status >= 400)
        => dbLast.body \in C14_GenericMessages

\* the last Get* call asked for a challenge that had been stored, had not
\* been fetched before and was no older than sessionTTL
C11_Obtained ==
    /\ last.op = "get"
    /\ last.data # Nil
    /\ hist[last.id].at # NoTime
    /\ hist[last.id].gets = 1
    /\ ~last.late

\* C11: RegisterFinish and LoginFinish set a session cookie only when the
\* challenge entry was obtained and FinishRegistration or
\* FinishDiscoverableLogin returned no error, and the session is for the
\* user that verification was run against.
C11_SessionOnlyAfterVerification ==
    (dbLast.kind \in {"registerFinish", "loginFinish"} /\ dbLast.cookie) =>
        /\ C11_Obtained
        /\ last.id.ns = (IF dbLast.kind = "registerFinish"
                         THEN "registration" ELSE "discoverable")
        /\ (dbLast.kind = "registerFinish" => last.id = RegId(dbLast.cookieFor))
        /\ dbLast.why = ""
        /\ dbLast.verified \in users
        /\ dbLast.cookieFor = dbLast.verified

\* a passkey login of user 2 that sets the cookie, after a registration has
\* finished for a new user
C11_Witness ==
    /\ dbLast.kind = "loginFinish"
    /\ dbLast.status = 200
    /\ dbLast.cookie
    /\ dbLast.cookieFor = 2
    /\ \E c \in credentials : c.user = MaxUsers

\* C13: LoginFinish answers every failure of FinishDiscoverableLogin with 401
\* "login failed" and no cookie: a handle that resolves to no user gets the
\* same response as a bad signature or an unknown credential.
C13_UniformLoginFailure ==
    /\ (dbLast.kind = "loginFinish" /\ dbLast.why # "") =>
          /\ dbLast.status = 401
          /\ dbLast.body = "login failed"
          /\ ~dbLast.cookie
    /\ \A a, b \in seen : <<a[2], a[3], a[4]>> = <<b[2], b[3], b[4]>>

\* a login refused for its handle and one refused for its assertion
C13_Witness ==
    \E a, b \in seen :
       /\ a[1] \in {"handle", "user"}
       /\ b[1] \in {"signature", "credential"}

\* C15: once FinishDiscoverableLogin has succeeded, the response of
\* LoginFinish is the one the verification check and sessions.Create give,
\* whether UpdateCredentialSignCount failed or not.
C15_SignCountBestEffort ==
    (dbLast.kind = "loginFinish" /\ dbLast.verified # 0) =>
        [dbLast EXCEPT !.verified = 0, !.found = 0, !.hlen = 0, !.updated = "",
                       !.sessFail = FALSE]
           = createSession(dbLast.verified, dbLast.sessFail)

\* a login that sets the cookie although the sign count could not be written
C15_Witness ==
    /\ dbLast.kind = "loginFinish"
    /\ dbLast.updated # ""
    /\ dbLast.status = 200
    /\ dbLast.cookie
    /\ \A c \in DOMAIN signCounts : signCounts[c] = 0

\* C16: a user handle of a length other than 8 resolves to no user in
\* LoginFinish.
C16_OnlyEightByteHandles ==
    (dbLast.kind = "loginFinish" /\ dbLast.hlen # 8) => dbLast.found = 0

\* C12: in email mode with verification required, no handler sets a session
\* cookie for a user whose EmailVerified is false.
C12_NoSessionForUnverified ==
    (VerificationPending /\ dbLast.cookie) => dbLast.cookieFor \in emailVerified

C19_Registered == {ch \in 1..Len(chans) : ~chans[ch].closed}

C20_SendsReturn ==
    /\ send.pc # "panicked"
    /\ send.got \cap send.dropped = {}

\* C21: every code GenerateCodes returns is displayed as 14 characters, with
\* hyphens at index 4 and 9 (counted from 0) and at the other twelve places a
\* character of 23456789abcdefghjkmnpqrstuvwxyz, whatever bytes were drawn;
\* so none of 0, o, O, 1, l, I occurs in it.
C21_Alphabet ==
    {"2", "3", "4", "5", "6", "7", "8", "9", "a", "b", "c", "d", "e", "f", "g", "h",
     "j", "k", "m", "n", "p", "q", "r", "s", "t", "u", "v", "w", "x", "y", "z"}
C21_CodeFormat ==
    \A i \in 1..Len(gen.plaintexts) :
       LET displayed == gen.plaintexts[i]
       IN /\ Len(displayed) = 14
          /\ displayed[5] = "-" /\ displayed[10] = "-"
          /\ \A j \in (1..14) \ {5, 10} : displayed[j] \in C21_Alphabet
          /\ Cardinality({j \in 1..14 : displayed[j] # "-"}) = 12
          /\ \A j \in 1..14 : displayed[j] \notin {"0", "o", "O", "1", "l", "I"}

\* C21 witness: two codes were generated; the last byte drawn for the first
\* was 255, which gives 9, and for the second 0, which gives 2
C21_Witness ==
    /\ gen.err = "" /\ Len(gen.plaintexts) = 2
    /\ gen.stream.byte = 255
    /\ Cardinality(C21_Alphabet) = 31
    /\ gen.stream.at = 12
    /\ gen.plaintexts[1][14] = "9" /\ gen.plaintexts[2][14] = "2"

\* C22: NormalizeCode is idempotent and takes a code typed with or without
\* hyphens, in any case, to one string; for a generated code that string is
\* the one that was hashed, so the typed code validates against hashes[i].
C22_NormalizeCode ==
    /\ NormalizeCode(entry.normalized) = entry.normalized
    /\ \A j \in 1..Len(entry.normalized) :
          entry.normalized[j] # "-" /\ toLower(entry.normalized[j]) = entry.normalized[j]
    /\ entry.normalized = NormalizeCode(ReplaceAll(ToUpper(entry.typed), "-", << >>))
    /\ entry.index > 0 =>
          /\ entry.normalized = gen.code[entry.index]
          /\ entry.valid

\* C22 witness: a generated code with a letter in it was typed in capitals
\* without its hyphens and validated against its hash
C22_Witness ==
    /\ entry.index = 2
    /\ Len(entry.typed) = 12
    /\ \E j \in 1..12 : entry.typed[j] = "Z"
    /\ entry.valid

\* C23: when a second registration ceremony of a user begins before the
\* first one's finish, the second challenge replaces the first.  The store
\* holds at most the second challenge for the user; of the finish requests
\* that follow, only the first can obtain an entry, every later one is
\* answered "registration session expired"; and the entry obtained is the
\* second ceremony's, never the first's.
C23_SecondBeginReplacesFirst ==
    \A u \in AccountIDs :
       (hist[RegId(u)].over /\ hist[RegId(u)].prev # Nil) =>
          /\ registrationKey(u) \in DOMAIN sessions =>
                /\ sessions[registrationKey(u)].data = hist[RegId(u)].data
                /\ sessions[registrationKey(u)].data # hist[RegId(u)].prev
          /\ (/\ dbLast.kind \in {"registerFinish", "addFinish"}
              /\ dbLast.status # 401
              /\ last.op = "get" /\ last.id = RegId(u)) =>
                /\ last.err = "" =>
                      /\ hist[RegId(u)].gets = 1
                      /\ last.data = hist[RegId(u)].data
                      /\ last.data # hist[RegId(u)].prev
                /\ hist[RegId(u)].gets >= 2 =>
                      /\ last.err # ""
                      /\ dbLast.status = 400
                      /\ dbLast.body = "registration session expired"

\* C23 witness: two ceremonies of a user overlapped, the first finish after
\* them obtained the second challenge while the first would still have been
\* valid, and the second finish was refused
C23_Witness ==
    \E u \in AccountIDs :
       /\ hist[RegId(u)].over
       /\ hist[RegId(u)].prev = Challenge(1) /\ hist[RegId(u)].data = Challenge(2)
       /\ hist[RegId(u)].gets = 2 /\ hist[RegId(u)].hit
       /\ now <= sessionTTL
       /\ dbLast.kind = "addFinish"
       /\ dbLast.body = "registration session expired"
       /\ last.op = "get" /\ last.id = RegId(u)

\* C24: no send is made on a channel that Unregister has closed.  A sender
\* never stands before a send on a closed channel, and no send call ends in
\* the panic of such a send.
C24_NoSendOnClosedChannel ==
    /\ (send.pc = "clients" /\ send.clients # << >>) =>
          ~chans[Head(send.clients).ch].closed
    /\ send.pc # "panicked"

\* C25: a finish request consumes the challenge whatever becomes of the
\* verification.  Once RegisterFinish, AddCredentialFinish or LoginFinish has
\* fetched the entry, the entry is gone, also when the user lookup or the
\* verification then fails; every further finish for the key before the next
\* begin is answered 400 with "... session expired" (the store's own error
\* being "session not found"), stores nothing and sets no cookie.
C25_Fetched ==
    /\ last.op = "get"
    /\ \/ dbLast.kind = "registerFinish"
       \/ dbLast.kind = "addFinish" /\ dbLast.status # 401
       \/ dbLast.kind = "loginFinish" /\ dbLast.body # "session_id is required"
C25_FinishConsumes ==
    C25_Fetched =>
       /\ KeyOf(last.id) \notin DOMAIN sessions
       /\ hist[last.id].gets >= 2 =>
             /\ last.err = "session not found"
             /\ dbLast.status = 400
             /\ dbLast.body \in {"registration session expired", "login session expired"}
             /\ ~dbLast.made
             /\ ~dbLast.cookie

\* C25 witness: the only login ever begun was finished with an assertion
\* that failed verification, and the finish was then repeated
C25_Witness ==
    /\ C25_Fetched
    /\ dbLast.kind = "loginFinish"
    /\ dbLast.body = "login session expired"
    /\ nStores = 1
    /\ hist[last.id].gets = 2 /\ hist[last.id].hit
    /\ seen # {}

\* C26: begin precedes finish.  A get returns data only for a key under which
\* a store has completed, and whose latest entry no earlier get has consumed
\* and which had not expired when the get was made; at every point the gets that have returned
\* data under a key are at most as many as the stores made under it.
C26_BeginPrecedesFinish ==
    /\ \A id \in Ids : hist[id].unread >= 0
    /\ (last.op = "get" /\ last.err = "") =>
          /\ hist[last.id].data # Nil
          /\ hist[last.id].at # NoTime /\ hist[last.id].at <= now
          /\ hist[last.id].gets = 1
          /\ ~last.late
          /\ last.data = hist[last.id].data

\* C26 witness: under one key two stores were made and each was followed by
\* a get that returned its data, while a key never stored under has none
C26_Witness ==
    /\ last.op = "get" /\ last.err = ""
    /\ hist[last.id].data = Challenge(2) /\ hist[last.id].unread = 0
    /\ ~hist[last.id].over
    /\ \E id \in Ids : hist[id].data = Nil /\ hist[id].unread = 0

\* C27: a ceremony that fails because GetUserByID, CreateCredential or
\* CreateRecoveryCodes returned an error is answered with status 500, and with
\* a response other than those for a failed verification and for an expired
\* or missing challenge.
C27_PersistenceFailure ==
    \/ /\ dbLast.kind = "registerFinish"
       /\ dbLast.body \in {"user not found", "failed to store credential",
                           "failed to store recovery codes"}
    \/ dbLast.kind = "addFinish" /\ dbLast.body = "failed to store credential"
    \/ dbLast.kind = "loginFinish" /\ dbLast.why = "user"
C27_InternalErrorIsDistinct ==
    C27_PersistenceFailure =>
       /\ dbLast.status = 500
       /\ \A t \in seen :
             t[1] \in {"parse", "credential", "signature"} =>
                <<t[2], t[3]>> # <<dbLast.status, dbLast.body>>
       /\ dbLast.body \notin {"login failed", "login session expired",
                              "registration session expired"}

\* C28: a get on a key whose entry is in the map but past its expiry removes
\* the entry and fails with "session expired"; a get on a key with no entry
\* fails with "session not found", which is another error; and the get that
\* follows an expired one on the same key fails with "session not found".
C28_ExpiredThenNotFound ==
    last.op = "get" =>
       /\ (last.had /\ last.late) =>
             /\ last.err = "session expired"
             /\ last.data = Nil
             /\ KeyOf(last.id) \notin DOMAIN sessions
       /\ ~last.had => (last.err = "session not found" /\ last.data = Nil)
       /\ last.err = "session expired" => (last.had /\ last.late)
       /\ last.afterExpired => (~last.had /\ last.err = "session not found")

\* C28 witness: the first get after a store found the entry expired, and the
\* get after it found none
C28_Witness ==
    /\ last.op = "get"
    /\ last.afterExpired
    /\ hist[last.id].gets = 2 /\ ~hist[last.id].hit
    /\ last.err = "session not found"
    /\ last.late

\* C29: one pass of the cleanup removes exactly the entries whose expiresAt
\* is before the time of the pass and leaves every other entry as it was; no
\* entry it removes would still be returned by a get at that instant.  (A step
\* that changes the map and is no Store* or Get* call is a cleanup pass.)
C29_CleanupFrame ==
    [][(sessions' # sessions /\ UNCHANGED <<now, hist, last, nStores>>) =>
          /\ DOMAIN sessions' = {k \in DOMAIN sessions : sessions[k].expiresAt >= now}
          /\ \A k \in DOMAIN sessions' : sessions'[k] = sessions[k]
          /\ \A k \in DOMAIN sessions \ DOMAIN sessions' :
                getErr(k) = "session expired" /\ getData(k) = Nil]_vars

\* C29 witness: an entry that was never read is gone after its expiry, swept
\* by a pass that left an entry stored before that expiry in the map
C29_Witness ==
    \E a \in Ids, b \in Ids :
       /\ hist[a].at # NoTime /\ hist[a].gets = 0
       /\ KeyOf(a) \notin DOMAIN sessions
       /\ now > hist[a].at + sessionTTL
       /\ hist[b].at # NoTime /\ hist[b].at <= hist[a].at + sessionTTL
       /\ KeyOf(b) \in DOMAIN sessions
       /\ sessions[KeyOf(b)].expiresAt >= now

\* C30: abandoned ceremonies are reclaimed.  Every entry in the map (the
\* k-th Store* call's, for every k), whether or not a get ever asks for it,
\* is eventually out of the map: no entry stays forever, as long as time
\* passes and the cleanup ticker fires.
C30_EventuallyReclaimed ==
    \A k \in 1..MaxStores :
       (\E key \in DOMAIN sessions : sessions[key].data = Challenge(k))
          ~> ~(\E key \in DOMAIN sessions : sessions[key].data = Challenge(k))

\* C30 witness: a challenge that no get ever asked for and no store replaced
\* is out of the map after its expiry
C30_Witness ==
    /\ nStores = 1
    /\ \E id \in Ids :
          /\ hist[id].data = Challenge(1)
          /\ hist[id].gets = 0
          /\ last.op = "store" /\ last.id = id
          /\ now > hist[id].at + sessionTTL
          /\ sessions = << >>
====
